---- MODULE Spec2Model ----
(***************************************************************************)
(* Gesture-controlled particle tree: the hand tracker (camera lifecycle,   *)
(* per-frame classification and arbitration, smoothing), the store, and    *)
(* the scene's interaction effect with its tweened transitions, and the    *)
(* music player of the UI with its fallback sources and audio analysis.    *)
(*                                                                         *)
(* Units.  Landmark coordinates are in thousandths of the frame and raw    *)
(* angles in hundred-thousandths of a radian.  handPosition, handRotation  *)
(* and the smoothers are fixed-point numbers fine enough to hold MaxSteps  *)
(* consecutive smoothing steps exactly (PosUnit, RotUnit); a frame whose   *)
(* smoothing would need a finer value is not followed.  explosionVal and   *)
(* focusVal are in thousandths (Scale = 1.0).  One Tick of the animation   *)
(* clock is half a second.                                                 *)
(***************************************************************************)
EXTENDS Integers, Sequences, FiniteSets, TLC

VARIABLES
  handLandmarker,    \* useState: NULL or "landmarker"
  loading,           \* useState: detector initialisation in progress
  errorMsg,          \* useState: NULL or "AI Init Failed"
  isCameraOpen,      \* store
  gestureState,      \* store
  handPosition,      \* store, [x, y]
  handRotation,      \* store
  phase,             \* store
  uploadedPhotos,    \* store, sequence of photo ids
  prevHandPos,       \* useRef, [x, y]
  prevHandRot,       \* useRef
  requestRef,        \* useRef: position in `scheduled` of the callback whose id
                     \* requestRef.current holds, 0 when that id is not pending
  srcObject,         \* videoRef.current.srcObject: 0 (null) or a stream id
  videoReady,        \* the video element has frame data (videoWidth > 0)
  streams,           \* every MediaStream getUserMedia returned: "live" | "stopped"
  pending,           \* getUserMedia promises not yet settled (startCamera closures)
  listeners,         \* 'loadeddata' listeners on the video element (closures)
  scheduled,         \* pending requestAnimationFrame callbacks (closures), oldest first
  opens,             \* number of getUserMedia calls made so far
  results,           \* the latest detectForVideo call: [kind, hands], kind "none" |
                     \* "error" | "ok", or "fault" when the frame threw after the call
  focusedPhotoIndex, \* useState of the scene: NoPhoto or an index (0-based)
  controlsEnabled,   \* controls.enabled
  explosionVal,      \* useRef, 0..Scale
  focusVal,          \* useRef, 0..Scale
  tweens,            \* gsap tweens in flight, in creation order
  audio,             \* the UI's audio element, its closure and its refs:
                     \*   attempt     handleError's counter
                     \*   src         "primary" | "backup" | "tertiary"
                     \*   crossOrigin the crossOrigin attribute is set
                     \*   net         "loading" | "ready" | "failed"
                     \*   loads       every load started, [src, crossOrigin], in order
                     \*   playPending number of toggleMusic calls awaiting play()
                     \*   isPlaying   useState
                     \*   analyser    analyserRef.current is set
                     \*   context     state of audioContextRef.current:
                     \*               "none" | "suspended" | "running"
                     \*   resumePending number of toggleMusic calls awaiting resume()
                     \*   raf         pending analyzeAudio callbacks (closures)
                     \*   rafRef      position in raf of the id rafRef.current holds
  audioData          \* store: "initial" (0) | "beat" (simulated) | "spectrum" (measured)

vars == <<handLandmarker, loading, errorMsg, isCameraOpen, gestureState,
          handPosition, handRotation, phase, uploadedPhotos, prevHandPos,
          prevHandRot, requestRef, srcObject, videoReady, streams, pending,
          listeners, scheduled, opens, results, focusedPhotoIndex,
          controlsEnabled, explosionVal, focusVal, tweens, audio, audioData>>

NULL == "null"
NoPhoto == -1     \* focusedPhotoIndex null

\* ---------------------------------------------------------------- bounds
MaxOpens == 2      \* camera acquisitions (getUserMedia calls)
MaxTweens == 4     \* tweens in flight when a gesture change, click or upload is accepted
MaxFrameTweens == 3 \* tweens in flight when a camera frame is accepted
MaxPhotos == 2     \* uploaded photos
MaxPlays == 2      \* toggleMusic calls awaiting play() at once
MaxLoops == 3      \* analyzeAudio callbacks pending at once
MaxSteps == 3      \* consecutive smoothing steps whose results are held exactly

\* ------------------------------------------------------ program constants
Scale == 1000
PosAlphaPct == 15
RotAlphaPct == 10
Deadzone == 20000
PinchThreshold == 50
HalfPi == 157080
ExplosionTicks == 4
FocusOutTicks == 2
FocusInTicks == 3

Abs(n) == IF n < 0 THEN -n ELSE n

\* Smoothed positions are kept in PosUnit-ths of a thousandth and smoothed
\* rotations in RotUnit-ths of a hundred-thousandth of a radian, so that
\* MaxSteps steps by 0.15 = 3/20, respectively by 0.1 = 1/10, have exact
\* results.
PosUnit == 20 ^ MaxSteps
RotUnit == 10 ^ MaxSteps

\* d * pct / 100
Pct(d, pct) == (d \div 100) * pct + ((d % 100) * pct) \div 100
\* whether d * pct / 100 is a whole number of units
Whole(d, pct) == ((d % 100) * pct) % 100 = 0

Pt(px, py) == [x |-> px, y |-> py]

\* the frame centre (0.5, 0.5) in the units of the smoothed position
Centre == Pt(500 * PosUnit, 500 * PosUnit)

\* Number.NaN as a coordinate or a computed value: arithmetic on it gives
\* NaN and every comparison with it is false
NaN == -2000000000
IsNaN(v) == v = NaN
\* a smoothed value finer than the units hold; no reachable state has one
Finer == -2000000001
\* a landmark coordinate or an angle in the units of the smoothed values
InUnits(v, unit) == IF IsNaN(v) THEN NaN ELSE v * unit
AnyNaN(vs) == \E v \in vs : IsNaN(v)
Gt(a, b) == ~IsNaN(a) /\ ~IsNaN(b) /\ a > b
Lt(a, b) == ~IsNaN(a) /\ ~IsNaN(b) /\ a < b

\* ------------------------------------------------------------- detector
\* One hand of the detector's output: 21 landmarks, wrist at the frame centre.
\* ext is the set of fingers held straight (1 thumb .. 5 pinky); pd > 0 puts
\* the thumb tip pd units beside the index tip; tilt moves landmark 9.
WristPt == Pt(500, 500)

ThumbTip(ext, pd, indexTip) ==
  IF pd > 0 THEN Pt(indexTip.x - pd, indexTip.y)
  ELSE IF 1 \in ext THEN Pt(380, 430) ELSE Pt(470, 500)

HandLandmarks(wrist, ext, pd, mid) ==
  LET ox == wrist.x - 500
      oy == wrist.y - 500
      indexTip == IF 2 \in ext THEN Pt(470, 300) ELSE Pt(470, 440)
      thumb == ThumbTip(ext, pd, indexTip)
      at(i) == CASE i = 0 -> Pt(500, 500)
                 [] i = 2 -> Pt(440, 470)
                 [] i = 4 -> thumb
                 [] i = 6 -> Pt(470, 380)
                 [] i = 8 -> indexTip
                 [] i = 9 -> Pt(500 + mid.x, 500 + mid.y)
                 [] i = 10 -> Pt(500, 370)
                 [] i = 12 -> IF 3 \in ext THEN Pt(500, 280) ELSE Pt(500, 440)
                 [] i = 14 -> Pt(530, 380)
                 [] i = 16 -> IF 4 \in ext THEN Pt(530, 300) ELSE Pt(530, 440)
                 [] i = 18 -> Pt(560, 400)
                 [] i = 20 -> IF 5 \in ext THEN Pt(560, 330) ELSE Pt(560, 450)
                 [] OTHER -> Pt(500, 450)
  IN [i \in 0..20 |-> Pt(at(i).x + ox, at(i).y + oy)]

Upright == Pt(0, -100)

Hand(label, ext, pd) ==
  [label |-> label, landmarks |-> HandLandmarks(WristPt, ext, pd, Upright)]

AllFingers == {1, 2, 3, 4, 5}

OpenHand(label) == Hand(label, AllFingers, 0)
FistHand(label) == Hand(label, {}, 0)
TwoFingerHand(label) == Hand(label, {2, 3}, 0)
\* two fingers straight, thumb tip on the index tip
PinchingHand(label) == Hand(label, {2, 3}, 30)

ControlHands == { OpenHand("Left"), FistHand("Left"), TwoFingerHand("Left") }
GrabHands == { FistHand("Right"), PinchingHand("Right"), TwoFingerHand("Right") }

\* Detector outputs of the tracker specification: no hand, one hand, and a
\* control hand with a grab hand (in either order of the detector's list).
OneHand == { <<h>> : h \in ControlHands \cup GrabHands \cup {OpenHand("Right"), PinchingHand("Left")} }
TwoHands == { <<l, r>> : l \in ControlHands, r \in GrabHands }
              \cup { <<PinchingHand("Right"), FistHand("Left")>> }
TrackerFrames == {<<>>} \cup OneHand \cup TwoHands

\* Malformed detector outputs: a control hand with only its first ten
\* landmarks, and hands whose coordinates are all NaN.
ShortHand(label) ==
  [label |-> label, landmarks |-> [i \in 0..9 |-> OpenHand(label).landmarks[i]]]
NaNHand(label) == [label |-> label, landmarks |-> [i \in 0..20 |-> Pt(NaN, NaN)]]
MalformedFrames == { <<ShortHand("Left")>>, <<NaNHand("Left")>>, <<NaNHand("Right")>> }

\* Detector outputs of the motion specification: hands away from the frame
\* centre, rolled past the deadzone (about 0.255 rad) or inside it (about
\* 0.149 rad), alone, as a grab hand, and twice with the same label.
MovedWrist == Pt(520, 480)
Tilted == Pt(26, -100)
Slight == Pt(15, -100)

MovedHand(label, ext, pd, mid) ==
  [label |-> label, landmarks |-> HandLandmarks(MovedWrist, ext, pd, mid)]

MovingFrames ==
  { <<>>,
    <<MovedHand("Left", {}, 0, Tilted)>>,
    <<MovedHand("Left", {2, 3}, 0, Slight)>>,
    <<MovedHand("Right", {}, 0, Tilted)>>,
    <<MovedHand("Left", {2, 3}, 0, Tilted), MovedHand("Left", {2, 3}, 0, Tilted)>> }

\* Detector outputs of the pose specification: one control hand with every
\* combination of straight and bent fingers; one grab hand, away from the
\* frame centre, open, closed, neutral and pinching; and hands whose pose
\* belongs to the other role.
ControlPoses == { <<Hand("Left", ext, 0)>> : ext \in SUBSET AllFingers }
GrabPoses ==
  { <<MovedHand("Right", AllFingers, 0, Tilted)>>,
    <<MovedHand("Right", {}, 0, Tilted)>>,
    <<MovedHand("Right", {2, 3}, 0, Tilted)>>,
    <<MovedHand("Right", {2, 3}, 30, Tilted)>> }
MixedPoses ==
  { <<PinchingHand("Left")>>,
    <<OpenHand("Left"), MovedHand("Right", AllFingers, 0, Tilted)>>,
    <<MovedHand("Right", {2, 3}, 30, Tilted), TwoFingerHand("Left")>>,
    <<PinchingHand("Left"), MovedHand("Right", {2, 3}, 0, Tilted)>> }
PoseFrames == ControlPoses \cup GrabPoses \cup MixedPoses

\* Detector outputs of the pinch specification: one grab hand, neutral or
\* open, with the thumb tip 0.030, 0.049, 0.050 or 0.051 beside the index
\* tip, or 0.050 from it in two other directions.
PinchGaps == {30, 49, 50, 51}
ThumbsAtThreshold == { Pt(500, 260), Pt(520, 300) }
PinchFrames ==
  { <<Hand("Right", ext, pd)>> : ext \in {{2, 3}, AllFingers}, pd \in PinchGaps }
    \cup { <<[Hand("Right", ext, 0) EXCEPT !.landmarks[4] = thumbTip]>> :
             ext \in {{2, 3}, AllFingers}, thumbTip \in ThumbsAtThreshold }

Threw == [kind |-> "error", hands |-> <<>>]
Returned(hands) == [kind |-> "ok", hands |-> hands]

\* ------------------------------------------------------------ classifier
\* landmarks[i] is undefined beyond the end of the array, and reading a
\* coordinate of undefined throws a TypeError
Defined(landmarks, is) == \A i \in is : i \in DOMAIN landmarks

distSq(p1, p2) ==
  IF AnyNaN({p1.x, p1.y, p2.x, p2.y}) THEN NaN
  ELSE (p1.x - p2.x) * (p1.x - p2.x) + (p1.y - p2.y) * (p1.y - p2.y)

fingerTips == <<8, 12, 16, 20>>
fingerPIPs == <<6, 10, 14, 18>>

extendedCount(landmarks) ==
  LET wrist == landmarks[0]
      fingers == Cardinality({ i \in 1..4 :
                    Gt(distSq(landmarks[fingerTips[i]], wrist),
                       distSq(landmarks[fingerPIPs[i]], wrist)) })
      thumb == IF Gt(distSq(landmarks[4], wrist), distSq(landmarks[2], wrist))
               THEN 1 ELSE 0
  IN fingers + thumb

\* the landmarks detectOpenClosed reads; it throws when one is missing
openClosedReads == {0, 2, 4, 6, 8, 10, 12, 14, 16, 18, 20}

\* variant: four straight fingers already count as an open palm
detectOpenClosed_lenient(landmarks) ==
  LET n == extendedCount(landmarks)
  IN IF n >= 4 THEN "open-palm" ELSE IF n <= 1 THEN "closed-fist" ELSE "waiting"

detectOpenClosed(landmarks) ==
  LET n == extendedCount(landmarks)
  IN IF n >= 5 THEN "open-palm" ELSE IF n <= 1 THEN "closed-fist" ELSE "waiting"

\* The sign of pinchDist - 0.05 as the doubles give it for a thumb tip and
\* an index tip 0.050 apart in thousandths: the roundings of the
\* coordinates, of the squares and of the root leave pinchDist just below
\* 0.05, on it or just above, depending on the operands.
pinchDistAtThreshold(thumbTip, indexTip) ==
  CASE <<thumbTip, indexTip>> = <<Pt(420, 300), Pt(470, 300)>> -> -1
    [] <<thumbTip, indexTip>> = <<Pt(500, 260), Pt(470, 300)>> -> 0
    [] <<thumbTip, indexTip>> = <<Pt(520, 300), Pt(470, 300)>> -> 1

\* variant: a distance of exactly the threshold counts as a pinch
isPinch_inclusive(landmarks) ==
  LET thumbTip == landmarks[4]
      indexTip == landmarks[8]
      d == distSq(thumbTip, indexTip)
  IN IF IsNaN(d) THEN FALSE
     ELSE IF d = PinchThreshold * PinchThreshold
       THEN pinchDistAtThreshold(thumbTip, indexTip) <= 0
     ELSE d < PinchThreshold * PinchThreshold

\* Math.sqrt(distSq(thumbTip, indexTip)) < 0.05: decided by the squares
\* away from the threshold, and by the doubles' rounding on it
isPinch(landmarks) ==
  LET thumbTip == landmarks[4]
      indexTip == landmarks[8]
      d == distSq(thumbTip, indexTip)
  IN IF IsNaN(d) THEN FALSE
     ELSE IF d = PinchThreshold * PinchThreshold
       THEN pinchDistAtThreshold(thumbTip, indexTip) < 0
     ELSE d < PinchThreshold * PinchThreshold

\* Math.atan2 in hundred-thousandths of a radian, on the directions the
\* detector outputs use
atan2(dy, dx) ==
  CASE dx = 0 /\ dy < 0 -> -HalfPi
    [] dx = 0 /\ dy > 0 -> HalfPi
    [] dy = 0 /\ dx >= 0 -> 0
    [] dy = 0 /\ dx < 0 -> 314159
    [] dy < 0 /\ dx = -dy -> -78540
    [] dy < 0 /\ dx = dy -> -235619
    [] dy = -100 /\ dx = 15 -> -142191
    [] dy = -100 /\ dx = 26 -> -131643
    [] dy = -100 /\ dx = -15 -> -171969
    [] dy = -100 /\ dx = -26 -> -182516


\* --------------------------------------------------------- program state
\* The whole state as one record, so that a handler's calls compose.
State ==
  [handLandmarker |-> handLandmarker, loading |-> loading, errorMsg |-> errorMsg,
   isCameraOpen |-> isCameraOpen, gestureState |-> gestureState,
   handPosition |-> handPosition, handRotation |-> handRotation,
   phase |-> phase, uploadedPhotos |-> uploadedPhotos,
   prevHandPos |-> prevHandPos, prevHandRot |-> prevHandRot,
   requestRef |-> requestRef, srcObject |-> srcObject, videoReady |-> videoReady,
   streams |-> streams, pending |-> pending, listeners |-> listeners,
   scheduled |-> scheduled, opens |-> opens, results |-> results,
   focusedPhotoIndex |-> focusedPhotoIndex, controlsEnabled |-> controlsEnabled,
   explosionVal |-> explosionVal, focusVal |-> focusVal, tweens |-> tweens,
   audio |-> audio, audioData |-> audioData]

Becomes(s) ==
  /\ handLandmarker' = s.handLandmarker
  /\ loading' = s.loading
  /\ errorMsg' = s.errorMsg
  /\ isCameraOpen' = s.isCameraOpen
  /\ gestureState' = s.gestureState
  /\ handPosition' = s.handPosition
  /\ handRotation' = s.handRotation
  /\ phase' = s.phase
  /\ uploadedPhotos' = s.uploadedPhotos
  /\ prevHandPos' = s.prevHandPos
  /\ prevHandRot' = s.prevHandRot
  /\ requestRef' = s.requestRef
  /\ srcObject' = s.srcObject
  /\ videoReady' = s.videoReady
  /\ streams' = s.streams
  /\ pending' = s.pending
  /\ listeners' = s.listeners
  /\ scheduled' = s.scheduled
  /\ opens' = s.opens
  /\ results' = s.results
  /\ focusedPhotoIndex' = s.focusedPhotoIndex
  /\ controlsEnabled' = s.controlsEnabled
  /\ explosionVal' = s.explosionVal
  /\ focusVal' = s.focusVal
  /\ tweens' = s.tweens
  /\ audio' = s.audio
  /\ audioData' = s.audioData

Remove(seq, k) == [i \in 1..(Len(seq) - 1) |-> IF i < k THEN seq[i] ELSE seq[i + 1]]

\* ----------------------------------------------------------------- gsap
\* gsap.to(target, {current: to, duration, ease, onComplete}); overwrite is
\* gsap's default (false): a new tween does not kill the older ones.
Tween(prop, to, dur, ease, onComplete) ==
  [prop |-> prop, to |-> to, dur |-> dur, ease |-> ease,
   onComplete |-> onComplete, elapsed |-> 0, start |-> -1]

\* variant: overwrite "auto", a new tween kills the older tweens of its property
gsapTo_overwrite(s, tw) ==
  [s EXCEPT !.tweens = Append(SelectSeq(@, LAMBDA o : o.prop # tw.prop), tw)]

gsapTo(s, tw) == [s EXCEPT !.tweens = Append(@, tw)]

\* eased progress of a tween as a fraction <<numerator, denominator>>
Ease(ease, e, d) ==
  CASE ease = "power2.out" -> <<d * d * d - (d - e) * (d - e) * (d - e), d * d * d>>
    [] ease = "power2.inOut" ->
         IF 2 * e < d THEN <<4 * e * e * e, d * d * d>>
         ELSE <<d * d * d - 4 * (d - e) * (d - e) * (d - e), d * d * d>>
    [] ease = "power1.out" -> <<d * d - (d - e) * (d - e), d * d>>

TweenValue(tw, start, e) ==
  IF e >= tw.dur THEN tw.to
  ELSE LET f == Ease(tw.ease, e, tw.dur)
           d == tw.to - start
       IN IF d < 0 THEN start - ((-d * f[1]) \div f[2])
          ELSE start + ((d * f[1]) \div f[2])

\* One tween renders on a tick: it reads its start value at its first
\* render, writes its eased value, and is removed (its onComplete queued) when
\* it reaches its duration.  acc = [ev, fv, keep, done].
renderTween(tw, acc) ==
  LET cur == IF tw.prop = "explosion" THEN acc.ev ELSE acc.fv
      st == IF tw.start < 0 THEN cur ELSE tw.start
      e == tw.elapsed + 1
      v == TweenValue(tw, st, e)
      fin == e >= tw.dur
  IN [ev |-> IF tw.prop = "explosion" THEN v ELSE acc.ev,
      fv |-> IF tw.prop = "focus" THEN v ELSE acc.fv,
      keep |-> IF fin THEN acc.keep
               ELSE Append(acc.keep, [tw EXCEPT !.start = st, !.elapsed = e]),
      done |-> IF fin /\ tw.onComplete # NULL
               THEN Append(acc.done, tw.onComplete) ELSE acc.done]

\* One tick of gsap's ticker over tweens i..Len, in creation order.
\* (x \in {e} binds x to the value of e, here and below.)
RECURSIVE renderTweens(_, _, _)
renderTweens(tws, i, acc) ==
  IF i > Len(tws) THEN acc
  ELSE CHOOSE r \in { renderTweens(tws, i + 1, a) : a \in {renderTween(tws[i], acc)} } : TRUE

\* ---------------------------------------------------------------- scene
\* variant: the branches without their re-entrancy guards
interactionEffect_unguarded(s, pick) ==
  IF s.gestureState = "open-palm" THEN
    LET s1 == [gsapTo(s, Tween("explosion", Scale, ExplosionTicks, "power2.out", NULL))
                 EXCEPT !.phase = "nebula"]
        s2 == gsapTo(s1, Tween("focus", 0, FocusOutTicks, "power1.out", NULL))
    IN [s2 EXCEPT !.focusedPhotoIndex = NoPhoto, !.controlsEnabled = TRUE]
  ELSE IF s.gestureState = "closed-fist" THEN
    LET s1 == [s EXCEPT !.phase = "collapsing"]
        s2 == gsapTo(s1, Tween("explosion", 0, ExplosionTicks, "power2.inOut", "setPhaseTree"))
        s3 == gsapTo(s2, Tween("focus", 0, FocusOutTicks, "power1.out", NULL))
    IN [s3 EXCEPT !.focusedPhotoIndex = NoPhoto, !.controlsEnabled = TRUE]
  ELSE IF s.gestureState = "pinch" /\ s.phase = "nebula" THEN
    LET s1 == [s EXCEPT !.focusedPhotoIndex = pick]
        s2 == gsapTo(s1, Tween("focus", Scale, FocusInTicks, "power1.out", NULL))
    IN [s2 EXCEPT !.controlsEnabled = FALSE]
  ELSE s

\* variant: the closed-fist branch leaves the focused photo in place
interactionEffect_keepFocus(s, pick) ==
  IF s.gestureState = "open-palm" THEN
    IF s.phase # "nebula" \/ s.focusedPhotoIndex # NoPhoto THEN
      LET s1 == IF s.phase # "nebula"
                THEN [gsapTo(s, Tween("explosion", Scale, ExplosionTicks, "power2.out", NULL))
                        EXCEPT !.phase = "nebula"]
                ELSE s
          s2 == gsapTo(s1, Tween("focus", 0, FocusOutTicks, "power1.out", NULL))
      IN [s2 EXCEPT !.focusedPhotoIndex = NoPhoto, !.controlsEnabled = TRUE]
    ELSE s
  ELSE IF s.gestureState = "closed-fist" THEN
    IF s.phase # "collapsing" /\ s.phase # "tree" THEN
      LET s1 == [s EXCEPT !.phase = "collapsing"]
          s2 == gsapTo(s1, Tween("explosion", 0, ExplosionTicks, "power2.inOut", "setPhaseTree"))
          s3 == gsapTo(s2, Tween("focus", 0, FocusOutTicks, "power1.out", NULL))
      IN [s3 EXCEPT !.controlsEnabled = TRUE]
    ELSE s
  ELSE IF s.gestureState = "pinch" /\ s.phase = "nebula" /\ Len(s.uploadedPhotos) > 0 THEN
    IF s.focusedPhotoIndex = NoPhoto THEN
      LET s1 == [s EXCEPT !.focusedPhotoIndex = pick]
          s2 == gsapTo(s1, Tween("focus", Scale, FocusInTicks, "power1.out", NULL))
      IN [s2 EXCEPT !.controlsEnabled = FALSE]
    ELSE s
  ELSE s

\* variant: the open-palm branch sets the phase without animating explosion
interactionEffect_noExplosion(s, pick) ==
  IF s.gestureState = "open-palm" THEN
    IF s.phase # "nebula" \/ s.focusedPhotoIndex # NoPhoto THEN
      LET s1 == IF s.phase # "nebula" THEN [s EXCEPT !.phase = "nebula"] ELSE s
          s2 == gsapTo(s1, Tween("focus", 0, FocusOutTicks, "power1.out", NULL))
      IN [s2 EXCEPT !.focusedPhotoIndex = NoPhoto, !.controlsEnabled = TRUE]
    ELSE s
  ELSE IF s.gestureState = "closed-fist" THEN
    IF s.phase # "collapsing" /\ s.phase # "tree" THEN
      LET s1 == [s EXCEPT !.phase = "collapsing"]
          s2 == gsapTo(s1, Tween("explosion", 0, ExplosionTicks, "power2.inOut", "setPhaseTree"))
          s3 == gsapTo(s2, Tween("focus", 0, FocusOutTicks, "power1.out", NULL))
      IN [s3 EXCEPT !.focusedPhotoIndex = NoPhoto, !.controlsEnabled = TRUE]
    ELSE s
  ELSE IF s.gestureState = "pinch" /\ s.phase = "nebula" /\ Len(s.uploadedPhotos) > 0 THEN
    IF s.focusedPhotoIndex = NoPhoto THEN
      LET s1 == [s EXCEPT !.focusedPhotoIndex = pick]
          s2 == gsapTo(s1, Tween("focus", Scale, FocusInTicks, "power1.out", NULL))
      IN [s2 EXCEPT !.controlsEnabled = FALSE]
    ELSE s
  ELSE s

\* The interaction effect of the scene: one run, with the values of the
\* render it belongs to.  pick is the value Math.random() selects.
interactionEffect(s, pick) ==
  IF s.gestureState = "open-palm" THEN
    IF s.phase # "nebula" \/ s.focusedPhotoIndex # NoPhoto THEN
      LET s1 == IF s.phase # "nebula"
                THEN [gsapTo(s, Tween("explosion", Scale, ExplosionTicks, "power2.out", NULL))
                        EXCEPT !.phase = "nebula"]
                ELSE s
          s2 == gsapTo(s1, Tween("focus", 0, FocusOutTicks, "power1.out", NULL))
      IN [s2 EXCEPT !.focusedPhotoIndex = NoPhoto, !.controlsEnabled = TRUE]
    ELSE s
  ELSE IF s.gestureState = "closed-fist" THEN
    IF s.phase # "collapsing" /\ s.phase # "tree" THEN
      LET s1 == [s EXCEPT !.phase = "collapsing"]
          s2 == gsapTo(s1, Tween("explosion", 0, ExplosionTicks, "power2.inOut", "setPhaseTree"))
          s3 == gsapTo(s2, Tween("focus", 0, FocusOutTicks, "power1.out", NULL))
      IN [s3 EXCEPT !.focusedPhotoIndex = NoPhoto, !.controlsEnabled = TRUE]
    ELSE s
  ELSE IF s.gestureState = "pinch" /\ s.phase = "nebula" /\ Len(s.uploadedPhotos) > 0 THEN
    IF s.focusedPhotoIndex = NoPhoto THEN
      LET s1 == [s EXCEPT !.focusedPhotoIndex = pick]
          s2 == gsapTo(s1, Tween("focus", Scale, FocusInTicks, "power1.out", NULL))
      IN [s2 EXCEPT !.controlsEnabled = FALSE]
    ELSE s
  ELSE s

\* React runs the effect after a render in which gestureState, phase or
\* uploadedPhotos changed; a phase the effect sets makes it run once more.
runEffect(s, pick) ==
  CHOOSE r \in { IF s1.phase # s.phase THEN interactionEffect(s1, pick) ELSE s1 :
                  s1 \in {interactionEffect(s, pick)} } : TRUE

setGestureState(s, g, pick) ==
  IF g = s.gestureState THEN s
  ELSE runEffect([s EXCEPT !.gestureState = g], pick)

setPhase(s, p, pick) ==
  IF p = s.phase THEN s
  ELSE runEffect([s EXCEPT !.phase = p], pick)

\* variant: a click on another photo restarts the animation but keeps the
\* photo already focused
handlePhotoClick_keepFirst(s, index) ==
  IF s.phase = "nebula" THEN
    LET s1 == IF s.focusedPhotoIndex = NoPhoto
              THEN [s EXCEPT !.focusedPhotoIndex = index] ELSE s
        s2 == gsapTo(s1, Tween("focus", Scale, FocusInTicks, "power1.out", NULL))
    IN [s2 EXCEPT !.controlsEnabled = FALSE]
  ELSE s

\* variant: a click focuses the photo and leaves the orbit controls on
handlePhotoClick_freeOrbit(s, index) ==
  IF s.phase = "nebula" THEN
    gsapTo([s EXCEPT !.focusedPhotoIndex = index],
           Tween("focus", Scale, FocusInTicks, "power1.out", NULL))
  ELSE s

handlePhotoClick(s, index) ==
  IF s.phase = "nebula" THEN
    LET s1 == [s EXCEPT !.focusedPhotoIndex = index]
        s2 == gsapTo(s1, Tween("focus", Scale, FocusInTicks, "power1.out", NULL))
    IN [s2 EXCEPT !.controlsEnabled = FALSE]
  ELSE s

addUploadedPhotos(s, photos, pick) ==
  runEffect([s EXCEPT !.uploadedPhotos = @ \o photos], pick)

\* gsap's ticker: all tweens render, then the completion callbacks of this
\* tick have set the phase and React runs the effect once.
gsapTick(s, pick) ==
  CHOOSE s2 \in
    { IF r.done # <<>>
      THEN setPhase([s EXCEPT !.explosionVal = r.ev, !.focusVal = r.fv, !.tweens = r.keep],
                    "tree", pick)
      ELSE [s EXCEPT !.explosionVal = r.ev, !.focusVal = r.fv, !.tweens = r.keep] :
      r \in { renderTweens(s.tweens, 1,
                [ev |-> s.explosionVal, fv |-> s.focusVal, keep |-> <<>>, done |-> <<>>]) } } : TRUE


\* --------------------------------------------------------- music player
Load(src, cors) == [src |-> src, crossOrigin |-> cors]

\* audio.src = url; audio.load(): the element starts fetching, and a play()
\* promise still unsettled is rejected
audioLoad(a, src) ==
  [a EXCEPT !.src = src, !.net = "loading",
            !.loads = Append(@, Load(src, a.crossOrigin)), !.playPending = 0]

\* variant: after the last fallback the chain starts over
handleError_restart(a) ==
  LET a1 == [a EXCEPT !.attempt = @ + 1, !.net = "failed", !.playPending = 0]
  IN IF a1.attempt = 1 THEN audioLoad(a1, "backup")
     ELSE IF a1.attempt = 2 THEN audioLoad(a1, "tertiary")
     ELSE IF a1.attempt = 3 THEN audioLoad([a1 EXCEPT !.crossOrigin = FALSE], "primary")
     ELSE IF a1.attempt = 4 THEN audioLoad([a1 EXCEPT !.crossOrigin = FALSE], "backup")
     ELSE audioLoad(a1, "primary")

\* the 'error' listener of the audio element
handleError(a) ==
  LET a1 == [a EXCEPT !.attempt = @ + 1, !.net = "failed", !.playPending = 0]
  IN IF a1.attempt = 1 THEN audioLoad(a1, "backup")
     ELSE IF a1.attempt = 2 THEN audioLoad(a1, "tertiary")
     ELSE IF a1.attempt = 3 THEN audioLoad([a1 EXCEPT !.crossOrigin = FALSE], "primary")
     ELSE IF a1.attempt = 4 THEN audioLoad([a1 EXCEPT !.crossOrigin = FALSE], "backup")
     ELSE a1

\* setupAudioContext: once, and only while the element carries
\* crossOrigin; state is the state the browser gives the new context
setupAudioContext(a, state) ==
  IF a.context # "none" \/ ~a.crossOrigin THEN a
  ELSE [a EXCEPT !.analyser = TRUE, !.context = state]

\* audioRef.current.play() called by toggleMusic: on a failed element the
\* promise rejects and the catch block only logs; otherwise the call stays
\* pending until the promise settles
callPlay(a) ==
  IF a.net = "failed" THEN a ELSE [a EXCEPT !.playPending = @ + 1]

\* resume() is fulfilled: the context runs and every toggleMusic call
\* awaiting it goes on to call play()
RECURSIVE resumeAll(_, _)
resumeAll(a, n) ==
  IF n = 0 THEN a
  ELSE resumeAll(callPlay([a EXCEPT !.resumePending = @ - 1]), n - 1)

\* rafRef.current = requestAnimationFrame(analyzeAudio), analyzeAudio being
\* the closure cl
audioRequestFrame(s, cl) ==
  [s EXCEPT !.audio.raf = Append(@, cl), !.audio.rafRef = Len(s.audio.raf) + 1]

\* if (rafRef.current) cancelAnimationFrame(rafRef.current)
audioCancelFrame(s) ==
  IF s.audio.rafRef = 0 THEN s
  ELSE [s EXCEPT !.audio.raf = Remove(@, s.audio.rafRef), !.audio.rafRef = 0]

\* analyzeAudio as the closure cl of the render that made it
analyzeAudio(s, cl) ==
  IF ~s.audio.analyser THEN
    IF cl.isPlaying THEN audioRequestFrame([s EXCEPT !.audioData = "beat"], cl)
    ELSE s
  ELSE audioRequestFrame([s EXCEPT !.audioData = "spectrum"], cl)

\* toggleMusic after `await audioRef.current.play()` has fulfilled; cl is
\* the render toggleMusic was made in
playResolved(s, cl) ==
  analyzeAudio([s EXCEPT !.audio.isPlaying = TRUE], cl)

\* playback starts: every toggleMusic call awaiting play() resumes, oldest
\* first
RECURSIVE playAll(_, _)
playAll(s, n) ==
  IF n = 0 THEN s
  ELSE playAll(playResolved([s EXCEPT !.audio.playPending = @ - 1], [isPlaying |-> FALSE]), n - 1)

\* toggleMusic of the current render, up to its first await: of resume()
\* when the context reads suspended, of play() otherwise
toggleMusic(s, state) ==
  IF s.audio.isPlaying THEN
    audioCancelFrame([s EXCEPT !.audio.isPlaying = FALSE])
  ELSE
    LET a1 == setupAudioContext(s.audio, state)
    IN IF a1.context = "suspended"
       THEN [s EXCEPT !.audio = [a1 EXCEPT !.resumePending = @ + 1]]
       ELSE [s EXCEPT !.audio = callPlay(a1)]

\* the analyzeAudio callback at position k leaves the queue
audioTakeFrame(s, k) ==
  [s EXCEPT !.audio.raf = Remove(@, k),
            !.audio.rafRef = IF @ = k THEN 0 ELSE IF @ > k THEN @ - 1 ELSE @]

\* ---------------------------------------------------------- hand tracker
\* A closure of the tracker component: the values of the render that made it.
Closure(s) == [isCameraOpen |-> s.isCameraOpen, handLandmarker |-> s.handLandmarker]

requestAnimationFrame(s, cl) ==
  [s EXCEPT !.scheduled = Append(@, cl), !.requestRef = Len(s.scheduled) + 1]

cancelAnimationFrame(s) ==
  IF s.requestRef = 0 THEN s
  ELSE [s EXCEPT !.scheduled = Remove(@, s.requestRef), !.requestRef = 0]

\* stream.getTracks().forEach(track => track.stop()) on the video's srcObject
stopTracks(s) ==
  IF s.srcObject # 0 THEN [s EXCEPT !.streams[s.srcObject] = "stopped"] ELSE s

\* variant: no deadzone around upright
rawRotation_noDeadzone(landmarks) ==
  IF AnyNaN({landmarks[9].x, landmarks[0].x, landmarks[9].y, landmarks[0].y}) THEN NaN
  ELSE atan2(landmarks[9].y - landmarks[0].y, landmarks[9].x - landmarks[0].x) + HalfPi

\* rotation of one hand: roll of the wrist -> landmark 9 direction, upright = 0
rawRotation(landmarks) ==
  IF AnyNaN({landmarks[9].x, landmarks[0].x, landmarks[9].y, landmarks[0].y}) THEN NaN
  ELSE LET dx == landmarks[9].x - landmarks[0].x
           dy == landmarks[9].y - landmarks[0].y
           rotation == atan2(dy, dx) + HalfPi
       IN IF Abs(rotation) < Deadzone THEN 0 ELSE rotation

\* variant: the step carries the value past its target
smooth_overshoot(prev, value, pct) ==
  IF IsNaN(prev) \/ IsNaN(value) THEN NaN
  ELSE IF prev = Finer \/ ~Whole(value - prev, pct) THEN Finer
  ELSE prev + Pct(value - prev, 100 + pct)

\* prev + (value - prev) * pct / 100, prev and value in the same units
smooth(prev, value, pct) ==
  IF IsNaN(prev) \/ IsNaN(value) THEN NaN
  ELSE IF prev = Finer \/ ~Whole(value - prev, pct) THEN Finer
  ELSE prev + Pct(value - prev, pct)

\* variant: every detected hand is taken for the control hand
handStep_noRoles(hand, acc) ==
  [acc EXCEPT !.pos = Pt(smooth(acc.pos.x, InUnits(hand.landmarks[0].x, PosUnit), PosAlphaPct),
                         smooth(acc.pos.y, InUnits(hand.landmarks[0].y, PosUnit), PosAlphaPct)),
              !.moved = TRUE,
              !.rot = smooth(acc.rot, InUnits(rawRotation(hand.landmarks), RotUnit),
                             RotAlphaPct),
              !.turned = TRUE,
              !.right = detectOpenClosed(hand.landmarks)]

\* One iteration of the loop over the detected hands.
\* acc = [right, left, pos, rot, moved, turned, thrown]: the two hand states,
\* the smoothers, whether position and rotation were stored, and whether the
\* iteration threw.
handStep(hand, acc) ==
  IF hand.label = "Left" THEN
    IF ~Defined(hand.landmarks, {0}) THEN [acc EXCEPT !.thrown = TRUE]
    ELSE
      LET wrist == hand.landmarks[0]
          smoothX == smooth(acc.pos.x, InUnits(wrist.x, PosUnit), PosAlphaPct)
          smoothY == smooth(acc.pos.y, InUnits(wrist.y, PosUnit), PosAlphaPct)
          a1 == [acc EXCEPT !.pos = Pt(smoothX, smoothY), !.moved = TRUE]
      IN IF ~Defined(hand.landmarks, {9}) THEN [a1 EXCEPT !.thrown = TRUE]
         ELSE
           LET smoothRot == smooth(acc.rot, InUnits(rawRotation(hand.landmarks), RotUnit),
                                   RotAlphaPct)
               a2 == [a1 EXCEPT !.rot = smoothRot, !.turned = TRUE]
           IN IF ~Defined(hand.landmarks, openClosedReads) THEN [a2 EXCEPT !.thrown = TRUE]
              ELSE [a2 EXCEPT !.right = detectOpenClosed(hand.landmarks)]
  ELSE IF hand.label = "Right" THEN
    IF ~Defined(hand.landmarks, openClosedReads) THEN [acc EXCEPT !.thrown = TRUE]
    ELSE IF detectOpenClosed(hand.landmarks) = "closed-fist" \/ isPinch(hand.landmarks)
    THEN [acc EXCEPT !.left = "pinch"] ELSE acc
  ELSE acc

RECURSIVE handLoop(_, _, _)
handLoop(hands, i, acc) ==
  IF i > Len(hands) \/ acc.thrown THEN acc
  ELSE CHOOSE r \in { handLoop(hands, i + 1, a) : a \in {handStep(hands[i], acc)} } : TRUE

combine_grabFirst(rightHandState, leftHandState) ==
  IF leftHandState = "pinch" THEN "pinch"
  ELSE IF rightHandState = "closed-fist" THEN "closed-fist"
  ELSE IF rightHandState = "open-palm" THEN "open-palm"
  ELSE "waiting"

\* the priority rule
combine(rightHandState, leftHandState) ==
  IF rightHandState = "closed-fist" THEN "closed-fist"
  ELSE IF leftHandState = "pinch" THEN "pinch"
  ELSE IF rightHandState = "open-palm" THEN "open-palm"
  ELSE "waiting"

noHands_keep(s, pick) == s

\* variant: losing the hands snaps position and rotation back to the centre
noHands_reset(s, pick) ==
  setGestureState([s EXCEPT !.prevHandPos = Centre, !.handPosition = Centre,
                            !.prevHandRot = 0, !.handRotation = 0], "waiting", pick)

\* the branch taken when the detector returns no hand
noHands(s, pick) == setGestureState(s, "waiting", pick)

onDetectError_halt(s, cl) == [s EXCEPT !.results = Threw]

\* variant: a failed detector call handled as a frame without hands
onDetectError_asNoHands(s, cl) ==
  requestAnimationFrame(noHands([s EXCEPT !.results = Threw], 0), cl)

\* the catch block around detectForVideo
onDetectError(s, cl) == requestAnimationFrame([s EXCEPT !.results = Threw], cl)

\* what the hand loop stored before it ended
stored(s, acc) ==
  LET s1 == IF acc.moved THEN [s EXCEPT !.prevHandPos = acc.pos, !.handPosition = acc.pos]
            ELSE s
  IN IF acc.turned THEN [s1 EXCEPT !.prevHandRot = acc.rot, !.handRotation = acc.rot]
     ELSE s1

\* predictWebcam once the detector has returned `hands`; a TypeError thrown
\* in the hand loop leaves predictWebcam with what was stored so far
handsResult(s, hands, pick) ==
  CHOOSE r \in
    { IF acc.thrown THEN [stored(s, acc) EXCEPT !.results.kind = "fault"]
      ELSE setGestureState(stored(s, acc), combine(acc.right, acc.left), pick) :
      acc \in { handLoop(hands, 1,
                  [right |-> "waiting", left |-> "waiting",
                   pos |-> s.prevHandPos, rot |-> s.prevHandRot,
                   moved |-> FALSE, turned |-> FALSE, thrown |-> FALSE]) } } : TRUE

processResults(s, cl, hands, pick) ==
  CHOOSE r \in
    { IF cl.isCameraOpen /\ s2.results.kind # "fault"
      THEN requestAnimationFrame(s2, cl) ELSE s2 :
      s2 \in { IF Len(hands) > 0
               THEN handsResult([s EXCEPT !.results = Returned(hands)], hands, pick)
               ELSE noHands([s EXCEPT !.results = Returned(hands)], pick) } } : TRUE

\* predictWebcam as the closure cl; outcome is what detectForVideo does if
\* it is called: it throws, or it returns hands.
predictWebcam(s, cl, outcome, pick) ==
  IF cl.handLandmarker = NULL THEN s
  ELSE IF ~s.videoReady THEN requestAnimationFrame(s, cl)
  ELSE IF outcome.kind = "error" THEN onDetectError(s, cl)
  ELSE processResults(s, cl, outcome.hands, pick)

\* the camera effect's cleanup function
cameraCleanup(s) == cancelAnimationFrame(stopTracks(s))

\* variant: the effect starts the frame loop itself, without awaiting the
\* stream
cameraEffectBody_eager(s) ==
  IF ~s.isCameraOpen THEN
    [stopTracks(s) EXCEPT !.srcObject = 0, !.videoReady = FALSE]
  ELSE
    requestAnimationFrame([s EXCEPT !.pending = Append(@, Closure(s)), !.opens = @ + 1],
                          Closure(s))

\* the camera effect's body, run with the new render's values
cameraEffectBody(s) ==
  IF ~s.isCameraOpen THEN
    [stopTracks(s) EXCEPT !.srcObject = 0, !.videoReady = FALSE]
  ELSE
    [s EXCEPT !.pending = Append(@, Closure(s)), !.opens = @ + 1]

\* React re-runs the camera effect when isCameraOpen or handLandmarker
\* changed: the cleanup the previous run returned, then the body.
cameraEffect(old, s) ==
  IF old.isCameraOpen = s.isCameraOpen /\ old.handLandmarker = s.handLandmarker THEN s
  ELSE CHOOSE r \in { cameraEffectBody(s1) :
                      s1 \in {IF old.isCameraOpen THEN cameraCleanup(s) ELSE s} } : TRUE

\* variant: the store ignores a request to close the camera
setCameraOpen_onlyOpen(s, open) ==
  IF open THEN cameraEffect(s, [s EXCEPT !.isCameraOpen = TRUE]) ELSE s

setCameraOpen(s, open) == cameraEffect(s, [s EXCEPT !.isCameraOpen = open])

\* the toggle button is disabled while loading or after an init error
toggleEnabled_always(s) == TRUE

toggleEnabled(s) == ~s.loading /\ s.errorMsg = NULL

\* every 'loadeddata' listener runs on the same video frame
RECURSIVE dispatchLoadedData(_, _, _, _)
dispatchLoadedData(s, i, outcome, pick) ==
  IF i > Len(s.listeners) THEN s
  ELSE CHOOSE r \in { dispatchLoadedData(s1, i + 1, outcome, pick) :
                      s1 \in {predictWebcam(s, s.listeners[i], outcome, pick)} } : TRUE

\* the callback at position k leaves the queue of pending animation frames
takeFrame(s, k) ==
  [s EXCEPT !.scheduled = Remove(@, k),
            !.requestRef = IF @ = k THEN 0 ELSE IF @ > k THEN @ - 1 ELSE @]

\* variant: Math.ceil in place of Math.floor
Picks_ceil(s) == IF Len(s.uploadedPhotos) = 0 THEN {0} ELSE 1..Len(s.uploadedPhotos)

Picks(s) == IF Len(s.uploadedPhotos) = 0 THEN {0} ELSE 0..(Len(s.uploadedPhotos) - 1)

Accepts(s) == Len(s.tweens) <= MaxTweens
\* a frame is followed while the tweens stay within their bound and the
\* smoothed values within the resolution of their units
AcceptsFrame(s) ==
  /\ Len(s.tweens) <= MaxFrameTweens
  /\ Finer \notin {s.prevHandPos.x, s.prevHandPos.y, s.prevHandRot}

\* ---------------------------------------------------------------- init
Init ==
  /\ handLandmarker = NULL
  /\ loading = TRUE
  /\ errorMsg = NULL
  /\ isCameraOpen = FALSE
  /\ gestureState = "waiting"
  /\ handPosition = Centre
  /\ handRotation = 0
  /\ phase = "tree"
  /\ uploadedPhotos = <<>>
  /\ prevHandPos = Centre
  /\ prevHandRot = 0
  /\ requestRef = 0
  /\ srcObject = 0
  /\ videoReady = FALSE
  /\ streams = <<>>
  /\ pending = <<>>
  /\ listeners = <<>>
  /\ scheduled = <<>>
  /\ opens = 0
  /\ results = [kind |-> "none", hands |-> <<>>]
  /\ focusedPhotoIndex = NoPhoto
  /\ controlsEnabled = TRUE
  /\ explosionVal = 0
  /\ focusVal = 0
  /\ tweens = <<>>
  /\ audio = [attempt |-> 0, src |-> "primary", crossOrigin |-> TRUE,
              net |-> "loading", loads |-> <<Load("primary", TRUE)>>,
              playPending |-> 0, isPlaying |-> FALSE, analyser |-> FALSE,
              context |-> "none", resumePending |-> 0,
              raf |-> <<>>, rafRef |-> 0]
  /\ audioData = "initial"

\* -------------------------------------------------------------- actions
\* initLandmarker succeeds (on the GPU or, after the fallback, on the CPU)
InitLandmarkerDone ==
  /\ loading /\ handLandmarker = NULL
  /\ \E s0 \in {State} :
       \E s \in {cameraEffect(s0, [s0 EXCEPT !.handLandmarker = "landmarker",
                                            !.loading = FALSE])} : Becomes(s)

\* initLandmarker fails
InitLandmarkerFailed ==
  /\ loading /\ handLandmarker = NULL
  /\ \E s \in {[State EXCEPT !.errorMsg = "AI Init Failed", !.loading = FALSE]} :
       Becomes(s)

\* a click on the START VISION / STOP VISION button
ToggleCamera ==
  /\ toggleEnabled(State)
  /\ isCameraOpen \/ opens < MaxOpens
  /\ \E s0 \in {State} : \E s \in {setCameraOpen(s0, ~isCameraOpen)} : Becomes(s)

\* a getUserMedia promise fulfils: startCamera continues after its await
GetUserMediaResolved ==
  \E k \in 1..Len(pending) :
    \E s \in {[State EXCEPT !.pending = Remove(@, k),
                            !.streams = Append(@, "live"),
                            !.srcObject = Len(streams) + 1,
                            !.videoReady = FALSE,
                            !.listeners = Append(@, pending[k])]} : Becomes(s)

\* a getUserMedia promise rejects: startCamera's catch block
GetUserMediaRejected ==
  \E k \in 1..Len(pending) :
    \E s0 \in {[State EXCEPT !.pending = Remove(@, k)]} :
      \E s \in {setCameraOpen(s0, FALSE)} : Becomes(s)

\* the video element fires 'loadeddata' for a live stream
LoadedData ==
  /\ srcObject # 0 /\ ~videoReady /\ streams[srcObject] = "live"
  /\ \E outcome \in {Threw} \cup { Returned(h) : h \in TrackerFrames } :
       \E s0 \in {[State EXCEPT !.videoReady = TRUE]} : \E pick \in Picks(s0) :
         \E s \in {dispatchLoadedData(s0, 1, outcome, pick)} :
           AcceptsFrame(s) /\ Becomes(s)

\* an animation frame runs predictWebcam before the video has data
FrameNotReady ==
  \E k \in 1..Len(scheduled) :
    /\ ~videoReady
    /\ \E s0 \in {takeFrame(State, k)} :
         \E s \in {predictWebcam(s0, scheduled[k], Threw, 0)} : Becomes(s)

\* an animation frame runs predictWebcam and detectForVideo throws
FrameDetectError ==
  \E k \in 1..Len(scheduled) :
    /\ videoReady
    /\ \E s0 \in {takeFrame(State, k)} :
         \E s \in {predictWebcam(s0, scheduled[k], Threw, 0)} : Becomes(s)

\* an animation frame runs predictWebcam and detectForVideo returns hands
FrameProcessed ==
  \E k \in 1..Len(scheduled) : \E hands \in TrackerFrames :
    /\ videoReady
    /\ \E s0 \in {takeFrame(State, k)} : \E pick \in Picks(s0) :
         \E s \in {predictWebcam(s0, scheduled[k], Returned(hands), pick)} :
           AcceptsFrame(s) /\ Becomes(s)

\* an animation frame runs predictWebcam and detectForVideo returns a
\* malformed hand
FrameMalformed ==
  \E k \in 1..Len(scheduled) : \E hands \in MalformedFrames :
    /\ videoReady
    /\ \E s0 \in {takeFrame(State, k)} : \E pick \in Picks(s0) :
         \E s \in {predictWebcam(s0, scheduled[k], Returned(hands), pick)} :
           AcceptsFrame(s) /\ Becomes(s)

\* 'loadeddata' with a detector that sees moving hands
LoadedDataMoving ==
  /\ srcObject # 0 /\ ~videoReady /\ streams[srcObject] = "live"
  /\ \E outcome \in {Threw} \cup { Returned(h) : h \in MovingFrames } :
       \E s0 \in {[State EXCEPT !.videoReady = TRUE]} : \E pick \in Picks(s0) :
         \E s \in {dispatchLoadedData(s0, 1, outcome, pick)} :
           AcceptsFrame(s) /\ Becomes(s)

\* an animation frame runs predictWebcam and detectForVideo returns moving
\* hands
FrameMoving ==
  \E k \in 1..Len(scheduled) : \E hands \in MovingFrames :
    /\ videoReady
    /\ \E s0 \in {takeFrame(State, k)} : \E pick \in Picks(s0) :
         \E s \in {predictWebcam(s0, scheduled[k], Returned(hands), pick)} :
           AcceptsFrame(s) /\ Becomes(s)

\* 'loadeddata' with a detector that sees one control hand in any pose
LoadedDataPoses ==
  /\ srcObject # 0 /\ ~videoReady /\ streams[srcObject] = "live"
  /\ \E outcome \in {Threw} \cup { Returned(h) : h \in PoseFrames } :
       \E s0 \in {[State EXCEPT !.videoReady = TRUE]} : \E pick \in Picks(s0) :
         \E s \in {dispatchLoadedData(s0, 1, outcome, pick)} :
           AcceptsFrame(s) /\ Becomes(s)

\* an animation frame runs predictWebcam and detectForVideo returns one
\* control hand in any pose
FramePoses ==
  \E k \in 1..Len(scheduled) : \E hands \in PoseFrames :
    /\ videoReady
    /\ \E s0 \in {takeFrame(State, k)} : \E pick \in Picks(s0) :
         \E s \in {predictWebcam(s0, scheduled[k], Returned(hands), pick)} :
           AcceptsFrame(s) /\ Becomes(s)

\* 'loadeddata' with a detector that sees one grab hand about to pinch
LoadedDataPinch ==
  /\ srcObject # 0 /\ ~videoReady /\ streams[srcObject] = "live"
  /\ \E outcome \in {Threw} \cup { Returned(h) : h \in PinchFrames } :
       \E s0 \in {[State EXCEPT !.videoReady = TRUE]} : \E pick \in Picks(s0) :
         \E s \in {dispatchLoadedData(s0, 1, outcome, pick)} :
           AcceptsFrame(s) /\ Becomes(s)

\* an animation frame runs predictWebcam and detectForVideo returns one
\* grab hand about to pinch
FramePinch ==
  \E k \in 1..Len(scheduled) : \E hands \in PinchFrames :
    /\ videoReady
    /\ \E s0 \in {takeFrame(State, k)} : \E pick \in Picks(s0) :
         \E s \in {predictWebcam(s0, scheduled[k], Returned(hands), pick)} :
           AcceptsFrame(s) /\ Becomes(s)

\* gsap's ticker advances the tweens by one tick
Tick ==
  /\ tweens # <<>>
  /\ \E s0 \in {State} : \E pick \in Picks(s0) :
       \E s \in {gsapTick(s0, pick)} : Becomes(s)

\* the store's gesture changes, as the tracker's frames produce them
GestureChange ==
  \E g \in {"waiting", "open-palm", "closed-fist", "pinch"} :
    /\ g # gestureState
    /\ \E s0 \in {State} : \E pick \in Picks(s0) :
         \E s \in {setGestureState(s0, g, pick)} : Accepts(s) /\ Becomes(s)

\* a click on a rendered photo
PhotoClick ==
  \E i \in 0..(Len(uploadedPhotos) - 1) :
    \E s0 \in {State} : \E s \in {handlePhotoClick(s0, i)} : Accepts(s) /\ Becomes(s)

\* the file input delivers one or two new photos
FileUpload ==
  \E n \in 1..2 :
    /\ Len(uploadedPhotos) + n <= MaxPhotos
    /\ \E s0 \in {State} : \E pick \in 0..(Len(uploadedPhotos) + n - 1) :
         \E s \in {addUploadedPhotos(s0, [i \in 1..n |-> Len(uploadedPhotos) + i], pick)} :
           Accepts(s) /\ Becomes(s)

\* the audio element has loaded enough of its source to play
AudioLoaded ==
  /\ audio.net = "loading"
  /\ \E s \in {[State EXCEPT !.audio.net = "ready"]} : Becomes(s)

\* the play() promises of a playable element are fulfilled
PlayFulfilled ==
  /\ audio.net = "ready"
  /\ audio.playPending > 0
  /\ \E s \in {playAll(State, audio.playPending)} :
       Len(s.audio.raf) <= MaxLoops /\ Becomes(s)

\* the audio element fails on its source, while fetching it or later while
\* streaming it: the 'error' event
AudioError ==
  /\ audio.net # "failed"
  /\ \E s \in {[State EXCEPT !.audio = handleError(@)]} : Becomes(s)

\* the resume() promises of the suspended context are fulfilled
ResumeFulfilled ==
  /\ audio.resumePending > 0
  /\ \E s \in {[State EXCEPT !.audio =
                   resumeAll([@ EXCEPT !.context = "running"], @.resumePending)]} :
       Becomes(s)

\* a click on the music button; a context it creates starts suspended or
\* running
ToggleMusic ==
  /\ audio.isPlaying \/ audio.playPending + audio.resumePending < MaxPlays
  /\ \E state \in {"suspended", "running"} :
       \E s \in {toggleMusic(State, state)} : Becomes(s)

\* an animation frame runs a pending analyzeAudio callback
AudioFrame ==
  \E k \in 1..Len(audio.raf) :
    \E s0 \in {audioTakeFrame(State, k)} :
      \E s \in {analyzeAudio(s0, audio.raf[k])} : Becomes(s)

\* ------------------------------------------------------- specifications
\* the hand tracker driving the store and the scene
Next ==
  \/ InitLandmarkerDone
  \/ InitLandmarkerFailed
  \/ ToggleCamera
  \/ GetUserMediaResolved
  \/ GetUserMediaRejected
  \/ LoadedData
  \/ FrameNotReady
  \/ FrameDetectError
  \/ FrameProcessed
  \/ Tick

Spec == Init /\ [][Next]_vars

\* the hand tracker with a detector that also returns malformed hands
NextMalformed == Next \/ FrameMalformed

SpecMalformed == Init /\ [][NextMalformed]_vars

\* the scene under every sequence of gesture changes, clicks and uploads
NextScene ==
  \/ GestureChange
  \/ PhotoClick
  \/ FileUpload
  \/ Tick

SpecScene == Init /\ [][NextScene]_vars

SpecSceneFair == SpecScene /\ WF_vars(Tick)


\* the hand tracker in front of moving hands: the smoothers at work
NextMotion ==
  \/ InitLandmarkerDone
  \/ InitLandmarkerFailed
  \/ ToggleCamera
  \/ GetUserMediaResolved
  \/ GetUserMediaRejected
  \/ LoadedDataMoving
  \/ FrameNotReady
  \/ FrameDetectError
  \/ FrameMoving

SpecMotion == Init /\ [][NextMotion]_vars


\* the hand tracker in front of one control hand in every pose
NextPoses ==
  \/ InitLandmarkerDone
  \/ InitLandmarkerFailed
  \/ ToggleCamera
  \/ GetUserMediaResolved
  \/ GetUserMediaRejected
  \/ LoadedDataPoses
  \/ FrameNotReady
  \/ FrameDetectError
  \/ FramePoses
  \/ Tick

SpecPoses == Init /\ [][NextPoses]_vars


\* the hand tracker in front of a grab hand closing thumb and index
NextPinch ==
  \/ InitLandmarkerDone
  \/ InitLandmarkerFailed
  \/ ToggleCamera
  \/ GetUserMediaResolved
  \/ GetUserMediaRejected
  \/ LoadedDataPinch
  \/ FrameNotReady
  \/ FrameDetectError
  \/ FramePinch

SpecPinch == Init /\ [][NextPinch]_vars


\* the music player under every order of loads, errors, clicks and frames
NextAudio ==
  \/ AudioLoaded
  \/ PlayFulfilled
  \/ ResumeFulfilled
  \/ AudioError
  \/ ToggleMusic
  \/ AudioFrame

SpecAudio == Init /\ [][NextAudio]_vars


\* --------------------------------------------------------------- claims
\* what the latest detector output shows, read off the landmarks directly
HasHand(hands, label) == \E i \in 1..Len(hands) : hands[i].label = label
HandOf(hands, label) == hands[CHOOSE i \in 1..Len(hands) : hands[i].label = label]
OnePerRole(hands) ==
  \A i, j \in 1..Len(hands) : hands[i].label = hands[j].label => i = j
ControlPose(hands) ==
  IF HasHand(hands, "Left") THEN detectOpenClosed(HandOf(hands, "Left").landmarks)
  ELSE "absent"
GrabSignal(hands) ==
  /\ HasHand(hands, "Right")
  /\ \/ detectOpenClosed(HandOf(hands, "Right").landmarks) = "closed-fist"
     \/ isPinch(HandOf(hands, "Right").landmarks)

\* C1: after a processed frame with at least one hand (one per role), the
\* gesture is closed-fist if the control hand is a fist, else pinch if the
\* grab hand grabs, else open-palm if the control hand is open, else waiting.
C1_Priority ==
  (results.kind = "ok" /\ Len(results.hands) > 0 /\ OnePerRole(results.hands)) =>
    gestureState =
      (IF ControlPose(results.hands) = "closed-fist" THEN "closed-fist"
       ELSE IF GrabSignal(results.hands) THEN "pinch"
       ELSE IF ControlPose(results.hands) = "open-palm" THEN "open-palm"
       ELSE "waiting")

C1_Witness ==
  /\ results.kind = "ok" /\ Len(results.hands) = 2
  /\ ControlPose(results.hands) = "closed-fist"
  /\ GrabSignal(results.hands)
  /\ gestureState = "closed-fist"

\* C2: after a processed frame in which the detector returned no hand,
\* gestureState is "waiting".
C2_NoHandsWaiting ==
  (results.kind = "ok" /\ Len(results.hands) = 0) => gestureState = "waiting"

\* a no-hand frame after frames that had opened the tree
C2_Witness ==
  /\ results.kind = "ok" /\ Len(results.hands) = 0
  /\ gestureState = "waiting"
  /\ phase = "nebula"

\* C3: a photo is focused only while phase = nebula.
C3_FocusOnlyInNebula == focusedPhotoIndex # NoPhoto => phase = "nebula"

ExplosionSettled == \A i \in 1..Len(tweens) : tweens[i].prop # "explosion"

\* C4: once no explosion animation is in flight, phase and explosion agree
\* with the last trigger: nebula with explosion 1, or tree with explosion 0.
C4_LastTriggerWins ==
  ExplosionSettled =>
    \/ phase = "nebula" /\ explosionVal = Scale
    \/ phase = "tree" /\ explosionVal = 0

\* C5: from tree, the gesture becoming open-palm makes the phase nebula in
\* the same step, and while the gesture stays open-palm the explosion
\* reaches 1.
C5_OpenPalmExplodes ==
  /\ [][(phase = "tree" /\ gestureState # "open-palm" /\ gestureState' = "open-palm")
          => phase' = "nebula"]_vars
  /\ (gestureState = "open-palm" /\ phase = "nebula")
       ~> (explosionVal = Scale \/ gestureState # "open-palm")

C5_Witness ==
  /\ gestureState = "open-palm" /\ phase = "nebula"
  /\ explosionVal = Scale /\ ExplosionSettled

\* C6: from nebula, the gesture becoming closed-fist makes the phase
\* collapsing in the same step, and while the gesture stays closed-fist the
\* phase becomes tree with explosion 0 and no focused photo.
C6_FistCollapses ==
  /\ [][(phase = "nebula" /\ gestureState # "closed-fist" /\ gestureState' = "closed-fist")
          => (phase' = "collapsing" /\ focusedPhotoIndex' = NoPhoto)]_vars
  /\ (gestureState = "closed-fist" /\ phase = "collapsing")
       ~> \/ phase = "tree" /\ explosionVal = 0 /\ focusedPhotoIndex = NoPhoto
          \/ gestureState # "closed-fist"

\* one tick into a collapse that a fist started in a fully opened nebula
\* with a photo fully enlarged: the phase is collapsing, the photo is no
\* longer focused, the explosion is on its way from 1 to 0 and the focus on
\* its way from 1 to 0
C6_Witness ==
  /\ gestureState = "closed-fist" /\ phase = "collapsing"
  /\ focusedPhotoIndex = NoPhoto /\ uploadedPhotos # <<>>
  /\ Len(tweens) = 2
  /\ tweens[1].prop = "explosion" /\ tweens[1].to = 0
  /\ tweens[1].onComplete = "setPhaseTree"
  /\ tweens[1].start = Scale /\ tweens[1].elapsed = 1
  /\ tweens[2].prop = "focus" /\ tweens[2].to = 0
  /\ tweens[2].start = Scale /\ tweens[2].elapsed = 1
  /\ 0 < explosionVal /\ explosionVal < Scale
  /\ 0 < focusVal /\ focusVal < Scale

\* C7: once the camera is stopped no predictWebcam callback remains scheduled.
C7_NoFrameAfterStop == ~isCameraOpen => scheduled = <<>>

\* C8: once the camera is stopped every stream getUserMedia returned has
\* its tracks stopped.
C8_StreamsReleased ==
  ~isCameraOpen => \A i \in 1..Len(streams) : streams[i] = "stopped"

\* C9: a frame whose detector call throws leaves gestureState, the hand
\* position and rotation, the smoothers and the phase unchanged, and
\* schedules the next frame callback.
C9_ErrorFrameSkips ==
  [][(FrameDetectError \/ (LoadedData /\ results'.kind = "error")) =>
       /\ UNCHANGED <<gestureState, handPosition, handRotation, prevHandPos,
                      prevHandRot, phase, focusedPhotoIndex, tweens>>
       /\ Len(scheduled') >= 1
       /\ Len(scheduled') >= Len(scheduled)
       /\ requestRef' = Len(scheduled')]_vars

\* an error frame during a held gesture, with the loop still scheduled
C9_Witness ==
  /\ results.kind = "error" /\ isCameraOpen
  /\ gestureState = "closed-fist"
  /\ scheduled # <<>>

\* C10: after a failed detector initialisation the error status is set, the
\* camera is never opened, no frame is processed or scheduled, and
\* gestureState stays waiting and phase stays tree.
C10_InitFailureDegrades ==
  errorMsg # NULL =>
    /\ ~loading /\ handLandmarker = NULL
    /\ ~isCameraOpen /\ opens = 0 /\ pending = <<>> /\ srcObject = 0
    /\ scheduled = <<>> /\ results.kind = "none"
    /\ gestureState = "waiting" /\ phase = "tree"

C10_Witness == errorMsg = "AI Init Failed" /\ ~loading /\ ~isCameraOpen

\* the collapse tweens in flight (those carrying onComplete), oldest first,
\* by the ticks each has run
Collapses(tws) == SelectSeq(tws, LAMBDA tw : tw.onComplete # NULL)
CollapseAges(tws) == [i \in 1..Len(Collapses(tws)) |-> Collapses(tws)[i].elapsed]
DueAges(tws) ==
  LET due == SelectSeq(Collapses(tws), LAMBDA tw : tw.elapsed + 1 < tw.dur)
  IN [i \in 1..Len(due) |-> due[i].elapsed + 1]
IsPrefix(a, b) == Len(a) <= Len(b) /\ \A i \in 1..Len(a) : a[i] = b[i]

\* C11: every collapse fires its completion callback exactly once.  No step
\* other than a tick of the animation clock removes a collapse in flight; a
\* tick ages each one, removes exactly those reaching their duration and
\* sets phase tree in that tick (the effect run that follows may reopen it
\* under open-palm), and changes no phase when none is due; and a collapse
\* in flight does not stay at the same age forever.
C11_CompletionOnce ==
  /\ [][(~Tick) => /\ IsPrefix(CollapseAges(tweens), CollapseAges(tweens'))
                    /\ Len(Collapses(tweens')) <= Len(Collapses(tweens)) + 1]_vars
  /\ [][Tick => /\ CollapseAges(tweens') = DueAges(tweens)
                /\ IF Len(DueAges(tweens)) < Len(Collapses(tweens))
                   THEN \/ phase' = "tree"
                        \/ gestureState = "open-palm" /\ phase' = "nebula"
                   ELSE phase' = phase]_vars
  /\ \A e \in 0..(ExplosionTicks - 1) :
       (Collapses(tweens) # <<>> /\ Head(Collapses(tweens)).elapsed = e)
         ~> (Collapses(tweens) = <<>> \/ Head(Collapses(tweens)).elapsed # e)

\* two collapses in flight: a second trigger arrived before the first completed
C11_Witness ==
  /\ Len(Collapses(tweens)) = 2
  /\ Collapses(tweens)[1].elapsed > Collapses(tweens)[2].elapsed

\* C12: gesture-driven transitions are edge-triggered.  A photo upload or a
\* tick of the animation clock, which leave gestureState as it is, set or
\* clear no focus, start no animation and change the phase only by a
\* completion callback setting it to tree.
C12_EdgeTriggered ==
  [][((FileUpload \/ Tick) /\ gestureState' = gestureState) =>
       /\ focusedPhotoIndex' = focusedPhotoIndex
       /\ phase' = phase \/ phase' = "tree"
       /\ Len(tweens') <= Len(tweens)]_vars

\* the gesture changes into g in this step
Becoming(g) == gestureState # g /\ gestureState' = g

\* C13: open-palm observed while phase = nebula with no photo focused changes
\* nothing: phase, focus, both progress values and the animations in flight.
C13_OpenPalmInNebulaNoop ==
  [][(Becoming("open-palm") /\ phase = "nebula" /\ focusedPhotoIndex = NoPhoto) =>
       UNCHANGED <<phase, focusedPhotoIndex, explosionVal, focusVal, tweens,
                   controlsEnabled>>]_vars

C13_Witness ==
  /\ gestureState = "open-palm" /\ phase = "nebula" /\ focusedPhotoIndex = NoPhoto
  /\ tweens = <<>> /\ explosionVal = Scale /\ focusVal = 0

\* C14: pinch observed while phase = nebula with zero uploaded photos leaves
\* focusedPhotoIndex null and starts no animation.
C14_PinchWithoutPhotos ==
  [][(Becoming("pinch") /\ phase = "nebula" /\ uploadedPhotos = <<>>) =>
       /\ focusedPhotoIndex' = NoPhoto
       /\ UNCHANGED <<tweens, focusVal, controlsEnabled>>]_vars

C14_Witness ==
  /\ gestureState = "pinch" /\ phase = "nebula" /\ uploadedPhotos = <<>>
  /\ focusedPhotoIndex = NoPhoto

\* C15: closed-fist observed while phase is tree or collapsing, and pinch
\* observed while a photo is focused, change neither phase nor
\* focusedPhotoIndex and start no animation.
C15_ReentrantNoop ==
  [][(\/ Becoming("closed-fist") /\ phase \in {"tree", "collapsing"}
      \/ Becoming("pinch") /\ focusedPhotoIndex # NoPhoto) =>
       UNCHANGED <<phase, focusedPhotoIndex, tweens, controlsEnabled>>]_vars

\* a held pinch over a settled focus on the second photo
C15_Witness ==
  /\ gestureState = "pinch" /\ phase = "nebula"
  /\ focusedPhotoIndex = 1 /\ tweens = <<>> /\ focusVal = Scale

\* C16: pinch observed while phase = nebula with no photo focused and n >= 1
\* photos focuses some index in 0..n-1 and starts the focus animation toward
\* 1; phase and explosion progress are unchanged.
C16_PinchFocuses ==
  [][(Becoming("pinch") /\ phase = "nebula" /\ focusedPhotoIndex = NoPhoto
        /\ Len(uploadedPhotos) >= 1) =>
       /\ focusedPhotoIndex' \in 0..(Len(uploadedPhotos) - 1)
       /\ Len(tweens') = Len(tweens) + 1
       /\ tweens'[Len(tweens')].prop = "focus" /\ tweens'[Len(tweens')].to = Scale
       /\ IsPrefix(tweens, tweens')
       /\ UNCHANGED <<phase, explosionVal>>]_vars

\* the pinch has just picked the second of two photos
C16_Witness ==
  /\ gestureState = "pinch" /\ phase = "nebula" /\ Len(uploadedPhotos) = 2
  /\ focusedPhotoIndex = 1 /\ ~controlsEnabled
  /\ tweens # <<>> /\ tweens[Len(tweens)].prop = "focus"
  /\ tweens[Len(tweens)].to = Scale /\ tweens[Len(tweens)].elapsed = 0

\* the tweens a step starts
Started(tws, tws2) == SubSeq(tws2, Len(tws) + 1, Len(tws2))
StartsTween(tws, tws2, prop, to) ==
  /\ IsPrefix(tws, tws2)
  /\ \E i \in 1..Len(Started(tws, tws2)) :
       Started(tws, tws2)[i].prop = prop /\ Started(tws, tws2)[i].to = to

\* C17 as stated: open-palm observed while phase = nebula with a photo
\* focused animates explosion toward 1, keeps phase nebula, clears the focus
\* and animates focus toward 0.
C17_OpenPalmWithFocus ==
  [][(Becoming("open-palm") /\ phase = "nebula" /\ focusedPhotoIndex # NoPhoto) =>
       /\ StartsTween(tweens, tweens', "explosion", Scale)
       /\ phase' = "nebula" /\ focusedPhotoIndex' = NoPhoto
       /\ StartsTween(tweens, tweens', "focus", 0)]_vars

\* C17 amended: open-palm observed while phase = nebula with a photo focused
\* keeps phase nebula, clears the focus, animates focus toward 0 and starts
\* no explosion animation, leaving explosion progress as it is.
C17_OpenPalmClearsFocus ==
  [][(Becoming("open-palm") /\ phase = "nebula" /\ focusedPhotoIndex # NoPhoto) =>
       /\ phase' = "nebula" /\ focusedPhotoIndex' = NoPhoto /\ controlsEnabled'
       /\ StartsTween(tweens, tweens', "focus", 0)
       /\ Len(tweens') = Len(tweens) + 1
       /\ explosionVal' = explosionVal]_vars

\* open-palm has just dismissed a focused photo in a settled nebula
C17_Witness ==
  /\ gestureState = "open-palm" /\ phase = "nebula" /\ focusedPhotoIndex = NoPhoto
  /\ ExplosionSettled /\ focusVal > 0
  /\ tweens # <<>> /\ tweens[Len(tweens)].prop = "focus"
  /\ tweens[Len(tweens)].to = 0 /\ tweens[Len(tweens)].elapsed = 0

\* a click on photo i: handlePhotoClick(i) and the render that follows
ClickOn(i) == \E s \in {handlePhotoClick(State, i)} : Becomes(s)

\* C18: a click on photo i while phase = nebula focuses i and starts the
\* focus animation toward 1, whatever was focused or animating before; a
\* click while phase is tree or collapsing changes nothing.
C18_ClickRetargets ==
  [][\A i \in 0..(MaxPhotos - 1) :
       (i < Len(uploadedPhotos) /\ ClickOn(i)) =>
         IF phase = "nebula"
         THEN /\ focusedPhotoIndex' = i /\ ~controlsEnabled'
              /\ StartsTween(tweens, tweens', "focus", Scale)
              /\ Len(tweens') = Len(tweens) + 1
              /\ UNCHANGED <<phase, explosionVal, focusVal, gestureState>>
         ELSE UNCHANGED vars]_vars

\* a click on the second photo while the focus animation of a pinch is in flight
C18_Witness ==
  /\ phase = "nebula" /\ gestureState = "pinch" /\ focusedPhotoIndex = 1
  /\ Len(tweens) >= 2
  /\ tweens[Len(tweens)].prop = "focus" /\ tweens[Len(tweens)].to = Scale
  /\ tweens[Len(tweens)].elapsed = 0
  /\ tweens[Len(tweens) - 1].prop = "focus" /\ tweens[Len(tweens) - 1].to = Scale
  /\ tweens[Len(tweens) - 1].elapsed > 0

\* the frame just handled carried a hand with fewer than 21 landmarks
HasShortHand(hands) ==
  \E i \in 1..Len(hands) : ~Defined(hands[i].landmarks, 0..20)

\* every coordinate of every hand of the frame is NaN
AllNaN(hands) ==
  /\ Len(hands) > 0
  /\ \A i \in 1..Len(hands) : \A j \in DOMAIN hands[i].landmarks :
       IsNaN(hands[i].landmarks[j].x) /\ IsNaN(hands[i].landmarks[j].y)

\* C19: a frame whose only hand has fewer than 21 landmarks is handled
\* without a fault leaving predictWebcam, its pose counts as Neutral
\* (gestureState waiting), and the next frame callback is scheduled.
C19_ShortHandFailsSafe ==
  [][(FrameMalformed /\ HasShortHand(results'.hands)) =>
       /\ results'.kind = "ok"
       /\ gestureState' = "waiting"
       /\ Len(scheduled') >= Len(scheduled)
       /\ requestRef' = Len(scheduled')]_vars

\* C20: a frame whose hands have NaN coordinates is classified Neutral
\* with no pinch: after it gestureState is waiting, never closed-fist,
\* open-palm or pinch.
C20_NaNFailsSafe ==
  (results.kind = "ok" /\ AllNaN(results.hands)) => gestureState = "waiting"

\* what the store publishes of the tracker, and the smoothers behind it
Smoothed(s) == <<s.handPosition, s.handRotation, s.prevHandPos, s.prevHandRot>>
Published(s) == <<s.gestureState, Smoothed(s)>>

\* a frame of the motion specification whose detector call threw
ErrorFrame == FrameDetectError \/ (LoadedDataMoving /\ results'.kind = "error")

\* C21 as stated: a frame whose detector call throws leaves gestureState and
\* the smoothed values as a frame with zero observed hands would leave them.
C21_ErrorAsNoHands ==
  [][ErrorFrame =>
       <<gestureState', <<handPosition', handRotation', prevHandPos', prevHandRot'>>>>
         = Published(noHands(State, 0))]_vars

\* C21 amended: a frame whose detector call throws leaves the smoothed
\* values as a frame with zero observed hands would, and keeps gestureState
\* as it was, where the zero-hand frame sets it to waiting.
C21_ErrorFrameKeeps ==
  [][ErrorFrame =>
       /\ <<handPosition', handRotation', prevHandPos', prevHandRot'>>
            = Smoothed(noHands(State, 0))
       /\ gestureState' = gestureState
       /\ noHands(State, 0).gestureState = "waiting"]_vars

\* an error frame during a held fist, after the smoothers have moved
C21_Witness ==
  /\ results.kind = "error"
  /\ gestureState = "closed-fist"
  /\ prevHandPos # Centre /\ prevHandRot # 0

\* C22: until the detector is initialised and getUserMedia has delivered a
\* stream, no frame callback is scheduled and no frame has been processed:
\* the detector has not been called, and gestureState and the smoothed
\* values are those of the construction.
C22_NoFrameBeforeSetup ==
  (handLandmarker = NULL \/ streams = <<>>) =>
    /\ scheduled = <<>> /\ listeners = <<>>
    /\ results.kind = "none"
    /\ gestureState = "waiting"
    /\ Smoothed(State) = <<Centre, 0, Centre, 0>>

\* the camera switched on with the detector ready, the stream still awaited
C22_Witness ==
  /\ handLandmarker # NULL /\ isCameraOpen
  /\ pending # <<>> /\ streams = <<>>
  /\ results.kind = "none"

\* C23: at every moment at most one predictWebcam callback is scheduled.
C23_OneLoop == Len(scheduled) <= 1

\* the one hand of the frame just processed
OnlyHand == results.hands[1].landmarks

\* C24: a control hand alone in the frame is classified by its number of
\* extended fingers: 5 gives open-palm, 0 or 1 closed-fist, and 2, 3 or 4
\* waiting.
C24_Classifier ==
  (results.kind = "ok" /\ Len(results.hands) = 1 /\ results.hands[1].label = "Left") =>
    /\ extendedCount(OnlyHand) = 5 => gestureState = "open-palm"
    /\ extendedCount(OnlyHand) \in {0, 1} => gestureState = "closed-fist"
    /\ extendedCount(OnlyHand) \in {2, 3, 4} => gestureState = "waiting"

\* four fingers straight and the thumb folded in: classified waiting
C24_Witness ==
  /\ results.kind = "ok" /\ Len(results.hands) = 1 /\ results.hands[1].label = "Left"
  /\ extendedCount(OnlyHand) = 4
  /\ ~Gt(distSq(OnlyHand[4], OnlyHand[0]), distSq(OnlyHand[2], OnlyHand[0]))
  /\ gestureState = "waiting"

\* the hands of a detector output that carry a label
Labelled(hands, label) == { i \in 1..Len(hands) : hands[i].label = label }

\* a hand as the grab role reads it: closed, or thumb tip on index tip
Grabs(landmarks) == detectOpenClosed(landmarks) = "closed-fist" \/ isPinch(landmarks)

\* C25: after a processed frame, closed-fist or open-palm is published only
\* if a hand labelled Left shows that pose; pinch is published only if a
\* hand labelled Right is closed or pinching, and is published whenever
\* one is and no Left hand is a fist; and a frame without a hand labelled
\* Left leaves handPosition, handRotation and the smoothers as they were.
C25_Roles ==
  [][results'.kind = "ok" =>
       LET hands == results'.hands
           control == Labelled(hands, "Left")
           grab == Labelled(hands, "Right")
       IN /\ gestureState' \in {"closed-fist", "open-palm"} =>
               \E i \in control : detectOpenClosed(hands[i].landmarks) = gestureState'
          /\ gestureState' = "pinch" => \E i \in grab : Grabs(hands[i].landmarks)
          /\ ( /\ \E i \in grab : Grabs(hands[i].landmarks)
               /\ \A i \in control : detectOpenClosed(hands[i].landmarks) # "closed-fist" )
               => gestureState' = "pinch"
          /\ control = {} =>
               UNCHANGED <<handPosition, handRotation, prevHandPos, prevHandRot>>]_vars

\* an open grab hand away from the centre: no open-palm, nothing moved
C25_Witness ==
  /\ results.kind = "ok"
  /\ results.hands = <<MovedHand("Right", AllFingers, 0, Tilted)>>
  /\ gestureState = "waiting"
  /\ handPosition = Centre /\ handRotation = 0

\* a frame of the motion specification in which a control hand was observed
ControlFrame ==
  /\ results'.kind = "ok" /\ HasHand(results'.hands, "Left")
  /\ FrameMoving \/ LoadedDataMoving

\* C26: every step other than a frame that observed a control hand (a frame
\* with no hand, with a grab hand only, or with a failed detector call, and
\* every camera stop and restart) leaves handPosition, handRotation and the
\* smoothers' previous values exactly as they were.
C26_HeldWithoutControlHand ==
  [][\/ UNCHANGED <<handPosition, handRotation, prevHandPos, prevHandRot>>
     \/ ControlFrame]_vars

\* a grab-only frame after a restart of the camera, the values still moved
C26_Witness ==
  /\ opens = 2 /\ isCameraOpen
  /\ results.kind = "ok" /\ results.hands = <<MovedHand("Right", {}, 0, Tilted)>>
  /\ handPosition # Centre /\ handRotation # 0
  /\ prevHandPos = handPosition /\ prevHandRot = handRotation

\* one smoothing step of the position and of the rotation toward a hand
StepToward(hand) ==
  <<Pt(smooth(prevHandPos.x, InUnits(hand.landmarks[0].x, PosUnit), PosAlphaPct),
       smooth(prevHandPos.y, InUnits(hand.landmarks[0].y, PosUnit), PosAlphaPct)),
    smooth(prevHandRot, InUnits(rawRotation(hand.landmarks), RotUnit), RotAlphaPct)>>

\* C27: one run of predictWebcam on a frame moves handPosition and
\* handRotation by at most one smoothing step: they are left as they were,
\* or are one step from the previous values toward one control hand of the
\* frame.
C27_OneStepPerFrame ==
  [][FrameMoving =>
       \/ UNCHANGED <<handPosition, handRotation>>
       \/ \E i \in Labelled(results'.hands, "Left") :
            <<handPosition', handRotation'>> = StepToward(results'.hands[i])]_vars

\* the gesture the hand loop and the priority rule derive from the hands of
\* one frame, started from blank hand states
GestureOf(hands) ==
  IF Len(hands) = 0 THEN "waiting"
  ELSE LET acc == handLoop(hands, 1,
                    [right |-> "waiting", left |-> "waiting",
                     pos |-> Pt(0, 0), rot |-> 0,
                     moved |-> FALSE, turned |-> FALSE, thrown |-> FALSE])
       IN combine(acc.right, acc.left)

\* C28: after every frame for which the detector returned, gestureState is
\* a function of the hands of that frame alone, whatever frames, gestures,
\* phases and camera restarts came before.
C28_Memoryless ==
  results.kind = "ok" => gestureState = GestureOf(results.hands)

\* a neutral control hand seen after an open palm had opened the tree
C28_Witness ==
  /\ results.kind = "ok" /\ results.hands = <<TwoFingerHand("Left")>>
  /\ gestureState = "waiting"
  /\ phase = "nebula" /\ opens = 2

\* v lies between a and b, ends included
Between(a, v, b) == (a <= v /\ v <= b) \/ (b <= v /\ v <= a)

\* C29: a frame with one control hand moves the position by 15 percent of
\* its distance to the hand's wrist and the rotation by 10 percent of its
\* distance to the hand's raw rotation, so that each new value lies between
\* the previous value and the raw one: never past it, never further away.
C29_SmoothingStep ==
  [][(Cardinality(Labelled(results'.hands, "Left")) = 1 /\ FrameMoving) =>
       LET hand == results'.hands[CHOOSE i \in Labelled(results'.hands, "Left") : TRUE]
           wrist == Pt(hand.landmarks[0].x * PosUnit, hand.landmarks[0].y * PosUnit)
           rotation == rawRotation(hand.landmarks) * RotUnit
       IN /\ 20 * (handPosition'.x - prevHandPos.x) = 3 * (wrist.x - prevHandPos.x)
          /\ 20 * (handPosition'.y - prevHandPos.y) = 3 * (wrist.y - prevHandPos.y)
          /\ 10 * (handRotation' - prevHandRot) = rotation - prevHandRot
          /\ prevHandPos' = handPosition' /\ prevHandRot' = handRotation'
          /\ Between(prevHandPos.x, handPosition'.x, wrist.x)
          /\ Between(prevHandPos.y, handPosition'.y, wrist.y)
          /\ Between(prevHandRot, handRotation', rotation)]_vars

\* the second frame in a row with the same rolled control hand
C29_Witness ==
  /\ results.kind = "ok" /\ results.hands = <<MovedHand("Left", {}, 0, Tilted)>>
  /\ handPosition = Pt(50555 * (PosUnit \div 100), 49445 * (PosUnit \div 100))
  /\ handRotation = 483303 * (RotUnit \div 100)
  /\ prevHandPos = handPosition /\ prevHandRot = handRotation

\* the roll of a hand before the deadzone: angle + PI / 2
Roll(hand) ==
  atan2(hand.landmarks[9].y - hand.landmarks[0].y,
        hand.landmarks[9].x - hand.landmarks[0].x) + HalfPi

\* C30: in a frame with one control hand, a roll of magnitude below 0.2 rad
\* enters the rotation smoother as 0, and a roll of magnitude 0.2 rad or
\* more enters it unchanged.
C30_Deadzone ==
  [][(Cardinality(Labelled(results'.hands, "Left")) = 1 /\ FrameMoving) =>
       LET roll == Roll(results'.hands[CHOOSE i \in Labelled(results'.hands, "Left") : TRUE])
       IN /\ Abs(roll) < 20000 => 10 * (handRotation' - prevHandRot) = 0 - prevHandRot
          /\ Abs(roll) >= 20000 =>
               10 * (handRotation' - prevHandRot) = roll * RotUnit - prevHandRot]_vars

\* a hand rolled by 0.149 rad seen after one rolled by 0.255 rad: the
\* rotation steps from 0.0254 back toward 0
C30_Witness ==
  /\ results.kind = "ok" /\ results.hands = <<MovedHand("Left", {2, 3}, 0, Slight)>>
  /\ Roll(results.hands[1]) = 14889
  /\ handRotation = 228933 * (RotUnit \div 100) /\ prevHandRot = handRotation

\* squared planar distance between thumb tip and index tip of a hand
GapSq(landmarks) ==
  (landmarks[4].x - landmarks[8].x) * (landmarks[4].x - landmarks[8].x)
    + (landmarks[4].y - landmarks[8].y) * (landmarks[4].y - landmarks[8].y)

\* the sign of pinchDist - 0.05, pinchDist being the distance the code
\* computes between the thumb tip and the index tip of a hand
PinchDistSign(landmarks) ==
  IF GapSq(landmarks) < 50 * 50 THEN -1
  ELSE IF GapSq(landmarks) > 50 * 50 THEN 1
  ELSE pinchDistAtThreshold(landmarks[4], landmarks[8])

\* C31: a grab hand that is not a fist yields pinch exactly when the
\* distance computed between its thumb tip and its index tip is less than
\* 0.05: at exactly 0.05 it does not, at 0.049 it does, whether its pose
\* reads neutral or open.
C31_StrictPinch ==
  ( /\ results.kind = "ok" /\ Len(results.hands) = 1
    /\ results.hands[1].label = "Right"
    /\ detectOpenClosed(OnlyHand) # "closed-fist" ) =>
      (gestureState = "pinch" <=> PinchDistSign(OnlyHand) < 0)

\* an open grab hand whose thumb-index distance computes to exactly 0.05
C31_Witness ==
  /\ results.kind = "ok" /\ Len(results.hands) = 1
  /\ results.hands[1].label = "Right"
  /\ detectOpenClosed(OnlyHand) = "open-palm"
  /\ PinchDistSign(OnlyHand) = 0
  /\ gestureState = "waiting"

\* C32: while phase = tree the explosion progress is 0 and no explosion
\* animation toward 1 is in flight.
C32_TreeMeansCollapsed ==
  phase = "tree" =>
    /\ explosionVal = 0
    /\ \A i \in 1..Len(tweens) : ~(tweens[i].prop = "explosion" /\ tweens[i].to = Scale)

\* C33: the phase changes only from tree to nebula, from nebula to
\* collapsing, and from collapsing to tree or to nebula.
C33_PhaseOrder ==
  [][phase' # phase =>
       <<phase, phase'>> \in { <<"tree", "nebula">>, <<"nebula", "collapsing">>,
                               <<"collapsing", "tree">>, <<"collapsing", "nebula">> }]_vars

\* C34: the orbit controls are disabled exactly while a photo is focused.
C34_ControlsFollowFocus ==
  controlsEnabled <=> focusedPhotoIndex = NoPhoto

\* a photo in focus with no gesture held, the controls switched off
C34_Witness ==
  /\ focusedPhotoIndex # NoPhoto /\ ~controlsEnabled
  /\ gestureState = "waiting" /\ phase = "nebula"

\* C35: focusedPhotoIndex is null or an index into uploadedPhotos, and the
\* list only grows at its end: the photos it held keep their positions.
C35_FocusInRange ==
  /\ [](focusedPhotoIndex = NoPhoto
          \/ (0 <= focusedPhotoIndex /\ focusedPhotoIndex < Len(uploadedPhotos)))
  /\ [][IsPrefix(uploadedPhotos, uploadedPhotos')]_vars

\* the first of two uploaded photos in focus
C35_Witness ==
  /\ focusedPhotoIndex = 0 /\ Len(uploadedPhotos) = 2
  /\ phase = "nebula"

\* C36: when a getUserMedia promise rejects, isCameraOpen becomes false, no
\* frame callback and no 'loadeddata' listener is added, gestureState and
\* phase keep their values, and the toggle button stays usable.
C36_AcquisitionFailure ==
  [][GetUserMediaRejected =>
       /\ ~isCameraOpen'
       /\ Len(scheduled') <= Len(scheduled) /\ listeners' = listeners
       /\ UNCHANGED <<gestureState, phase>>
       /\ ~loading' /\ errorMsg' = NULL]_vars

\* the camera switched on again after its first acquisition was rejected
C36_Witness ==
  /\ opens = 2 /\ isCameraOpen
  /\ streams = <<>> /\ Len(pending) = 1
  /\ scheduled = <<>>

\* C37: whenever the camera is closed gestureState is waiting.
C37_ClosedMeansWaiting == ~isCameraOpen => gestureState = "waiting"

\* the order in which handleError's fallbacks follow the first load
AudioChain ==
  <<Load("primary", TRUE), Load("backup", TRUE), Load("tertiary", TRUE),
    Load("primary", FALSE), Load("backup", FALSE)>>

\* C38: the loads started are, in order, primary, backup, tertiary, primary
\* without CORS, backup without CORS; every error event counts one attempt
\* and starts exactly the next load of that chain, and the fifth error
\* starts none and leaves the element failed, after which nothing is loaded
C38_RetryChain ==
  /\ [](/\ IsPrefix(audio.loads, AudioChain)
        /\ audio.attempt <= Len(AudioChain)
        /\ (audio.attempt = Len(AudioChain) => audio.net = "failed"))
  /\ [][/\ audio'.loads # audio.loads => audio'.attempt = audio.attempt + 1
        /\ audio'.attempt # audio.attempt =>
             /\ audio'.attempt = audio.attempt + 1
             /\ audio'.loads =
                  IF audio'.attempt < Len(AudioChain)
                    THEN Append(audio.loads, AudioChain[audio'.attempt + 1])
                    ELSE audio.loads]_vars

C38_Witness ==
  audio.attempt = Len(AudioChain) /\ audio.loads = AudioChain /\ audio.net = "failed"

\* C39: while music plays and there is no analyser, an analyzeAudio callback
\* is pending for the next animation frame and audioData holds the
\* simulated beat
C39_SimulatedBeat ==
  (audio.isPlaying /\ ~audio.analyser) =>
    (audio.raf # <<>> /\ audioData = "beat")

====
